---- MODULE Spec2Model ----
(***************************************************************************)
(* A model of bevy_mod_opacity: the Opacity component and its mutators,    *)
(* the per-frame systems interpolate, ApplyDeferred, calculate_opacity and *)
(* apply_opacity_query<Q>, and the built-in sinks of sprite.rs, ui.rs and  *)
(* pbr.rs.                                                                 *)
(*                                                                         *)
(* f32 values are modelled as exact rationals <<n, d>> in lowest terms.    *)
(* Every input set below holds dyadic values only (0, 1/4, 1/2, 1, 2), for *)
(* which the f32 operations of the code (+, -, *, / by a power of two) are *)
(* exact, so the rational arithmetic is the arithmetic the code performs.  *)
(***************************************************************************)
EXTENDS Integers, Sequences, FiniteSets, TLC

VARIABLES
    alive,      \* the entities that exist in the World
    opacity,    \* entity -> its Opacity component, or NoOpacity
    children,   \* entity -> its Children component (a sequence; <<>> if none)
    map,        \* OpacityMap: entity -> f32, on the entities it holds
    commands,   \* entities queued by commands.entity(e).try_despawn()
    pc,         \* index into Schedule of the system set that runs next
    ran,        \* the apply_opacity_query<Q> systems already run this frame
    registered, \* the sink types Q registered with the App
    sinks,      \* entity -> record of its sink components
    assets,     \* Assets<M>: material handle -> alpha of the stored material
    inserts,    \* the map.0.insert calls of this frame's calculate_opacity, in order
    before,     \* the entities the map held when it began
    applied,    \* the Q::apply_opacity calls of this frame: <<Q, entity, f32>>
    hist,       \* entity -> what happened since the last mutator call on it
    calls       \* number of calls made so far by the application's own systems

vars == <<alive, opacity, children, map, commands, pc, ran, registered,
          sinks, assets, inserts, before, applied, hist, calls>>

----------------------------------------------------------------------------
(* Bounds of the model. *)

\* entities of the hierarchy specifications
NumNodes == 3
\* mutator calls in one behaviour
MaxCalls == 2
\* changes to the World by the application in one behaviour
MaxEdits == 1
\* interpolation steps of a value after a mutator call
MaxSteps == 3
\* entities of the specifications with sinks
NumSceneNodes == 2

Nodes == 1 .. NumNodes

----------------------------------------------------------------------------
(* f32 arithmetic on exact rationals. *)

RECURSIVE GCD(_, _)
GCD(a, b) == IF b = 0 THEN a ELSE GCD(b, a % b)

Abs(x) == IF x < 0 THEN -x ELSE x

\* the rational n/d (d # 0) in lowest terms with a positive denominator
R(n, d) ==
    LET g == GCD(Abs(n), Abs(d))
        s == IF d < 0 THEN -1 ELSE 1
    IN  <<(s * n) \div g, (s * d) \div g>>

Zero == <<0, 1>>
One == <<1, 1>>
Half == <<1, 2>>
Quarter == <<1, 4>>
Two == <<2, 1>>

Add(x, y) == R(x[1] * y[2] + y[1] * x[2], x[2] * y[2])
Sub(x, y) == R(x[1] * y[2] - y[1] * x[2], x[2] * y[2])
Mul(x, y) == R(x[1] * y[1], x[2] * y[2])
\* x / y for y # 0
Div(x, y) == R(x[1] * y[2], x[2] * y[1])
Lt(x, y) == x[1] * y[2] < y[1] * x[2]
Le(x, y) == x[1] * y[2] <= y[1] * x[2]
Neg(x) == <<-x[1], x[2]>>

\* f32::signum: 1.0 for a positive number and for +0.0, -1.0 for a negative one
\* (x - x is +0.0 in the default rounding mode)
signum(x) == IF x[1] < 0 THEN Neg(One) ELSE One

\* the values, durations and frame times the model draws its inputs from
Vals == {Zero, Half, One}
Durations == {One, Two}
Deltas == {Zero, Half, One, Two}

----------------------------------------------------------------------------
(* The Opacity component. *)

NoOpacity == [none |-> TRUE]

new(v) == [current |-> v, target |-> v, speed |-> Zero, despawns |-> FALSE]

new_fade_in(time) ==
    [current |-> Zero, target |-> One, speed |-> Div(One, time),
     despawns |-> FALSE]

get(o) == o.current

get_target(o) == o.target

set(o, v) == new(v)

is_opaque(o) == Le(One, o.current)

is_visible(o) == Lt(Zero, o.current)

is_invisible(o) == Le(o.current, Zero)

is_despawning(o) == o.despawns

fade_in(o, time) ==
    [o EXCEPT !.target = One, !.despawns = FALSE, !.speed = Div(One, time)]

fade_out(o, time) ==
    [o EXCEPT !.target = Zero, !.despawns = TRUE,
              !.speed = Div(Neg(One), time)]

\* interpolate_to without "self.despawns = false"
interpolate_to_keeps_despawns(o, v, time) ==
    [o EXCEPT !.target = v, !.speed = Div(Sub(v, o.current), time)]

interpolate_to(o, v, time) ==
    [o EXCEPT !.target = v, !.despawns = FALSE,
              !.speed = Div(Sub(v, o.current), time)]

\* interpolate_by_speed with the speed of interpolate_to
interpolate_by_speed_as_to(o, v, time_zero_to_one) ==
    [o EXCEPT !.target = v, !.despawns = FALSE,
              !.speed = Div(Sub(v, o.current), time_zero_to_one)]

interpolate_by_speed(o, v, time_zero_to_one) ==
    [o EXCEPT !.target = v, !.despawns = FALSE,
              !.speed = Div(signum(Sub(v, o.current)), time_zero_to_one)]

----------------------------------------------------------------------------
(* The interpolate system: its loop body for one entity. *)

\* the upward arm without its clamp
overshoots_never(current, target) == FALSE

\* "if opacity.current > opacity.target" of the upward arm
overshoots(current, target) == Lt(target, current)

\* the downward arm without its clamp
undershoots_never(current, target) == FALSE

\* "if opacity.current < opacity.target" of the downward arm
undershoots(current, target) == Lt(current, target)

\* the match on opacity.speed with clamps that leave speed as it is
interpolate_entity_keeps_speed(o, dt) ==
    IF o.speed = Zero THEN o
    ELSE LET c == Add(o.current, Mul(o.speed, dt))
         IN  IF Lt(Zero, o.speed)
             THEN IF overshoots(c, o.target)
                  THEN [o EXCEPT !.current = o.target]
                  ELSE [o EXCEPT !.current = c]
             ELSE IF undershoots(c, o.target)
                  THEN [o EXCEPT !.current = o.target]
                  ELSE [o EXCEPT !.current = c]

\* one entity's Opacity after the match on opacity.speed
interpolate_entity(o, dt) ==
    IF o.speed = Zero THEN o
    ELSE LET c == Add(o.current, Mul(o.speed, dt))
         IN  IF Lt(Zero, o.speed)
             THEN IF overshoots(c, o.target)
                  THEN [o EXCEPT !.current = o.target, !.speed = Zero]
                  ELSE [o EXCEPT !.current = c]
             ELSE IF undershoots(c, o.target)
                  THEN [o EXCEPT !.current = o.target, !.speed = Zero]
                  ELSE [o EXCEPT !.current = c]

\* whether the loop body reaches commands.entity(entity).try_despawn():
\* "0.0 => continue" skips it, otherwise the test is on the updated value
requests_despawn(o, dt) ==
    /\ o.speed # Zero
    /\ LET o2 == interpolate_entity(o, dt)
       IN  o2.despawns /\ Le(o2.current, Zero)

----------------------------------------------------------------------------
(* The World: entities, hierarchy, sink components, material assets. *)

HasOpacity(n) == n \in alive /\ opacity[n] # NoOpacity

\* Query<(Entity, &Opacity)>
OpacityQueryEntities == {n \in Nodes : HasOpacity(n)}

\* the entities of a Children component, as a set
ChildSet(n) == {children[n][i] : i \in 1 .. Len(children[n])}

\* the parent of n, or 0
ParentOf(n) ==
    IF \E p \in Nodes : n \in ChildSet(p)
    THEN CHOOSE p \in Nodes : n \in ChildSet(p)
    ELSE 0

RECURSIVE Descendants(_)
Descendants(n) ==
    ChildSet(n) \cup UNION {Descendants(c) : c \in ChildSet(n)}

\* all sequences that list the elements of S once each
Perms(S) ==
    {f \in [1 .. Cardinality(S) -> S] : \A i, j \in 1 .. Cardinality(S) :
        f[i] = f[j] => i = j}

RemoveFromSeq(s, X) == SelectSeq(s, LAMBDA e : e \notin X)

\* an entity's sink components: Sprite.color, TextColor, ImageNode.color,
\* UiOpacity, BackgroundColor, BorderColor, and the handles of
\* MeshMaterial2d<ColorMaterial> and MeshMaterial3d<StandardMaterial>;
\* NoColor, NoUi, NoHandle where the entity lacks the component
NoColor == [absent |-> TRUE]

NoUi == "-"

NoHandle == 0

NoSinks ==
    [sprite |-> NoColor, text |-> NoColor, image |-> NoColor, ui |-> NoUi,
     background |-> NoColor, border |-> NoColor, mesh2d |-> NoHandle,
     mesh3d |-> NoHandle]

\* a colour: its non-alpha channels as one token, and its alpha
Color(rgb, a) == [rgb |-> rgb, a |-> a]

\* bevy::color::Alpha::set_alpha
set_alpha(c, a) == [c EXCEPT !.a = a]

EmptyMap == [n \in {} |-> Zero]

NoHist == [op |-> "none"]

\* the record kept for an entity after a mutator call: the call and its
\* arguments, the value it started from, whether fade_out has been called on
\* the component so far, and (counted from the call) the interpolation steps,
\* their summed dt and the removal requests
Called(op, o, v, d, faded) ==
    [op |-> op, c0 |-> o.current, v |-> v, d |-> d, faded |-> faded,
     steps |-> 0, elapsed |-> Zero, reqs |-> 0]

----------------------------------------------------------------------------
(* The PostUpdate schedule of OpacityPlugin::build. *)

\* the sets chained with Calculate ahead of Fading
Schedule_calculate_first == <<"Calculate", "Fading", "PostFade", "Apply">>

\* the sets chained with PostFade behind Calculate
Schedule_barrier_after_calculate ==
    <<"Fading", "Calculate", "PostFade", "Apply">>

\* (Fading, PostFade, Calculate, Apply).chain()
Schedule == <<"Fading", "PostFade", "Calculate", "Apply">>

Done == Len(Schedule) + 1

\* the position after set number i has finished; a set with no system in it
\* (Apply with no registered sink type) is passed over
AfterSet(i) ==
    IF i < Len(Schedule) /\ Schedule[i + 1] = "Apply" /\ registered = {}
    THEN i + 2
    ELSE i + 1

Running(s) == pc \in 1 .. Len(Schedule) /\ Schedule[pc] = s

----------------------------------------------------------------------------
(* Calls of the Opacity mutators by the application's own systems, which   *)
(* run before PostUpdate.                                                  *)

CanCall(n) == pc = 1 /\ calls < MaxCalls /\ HasOpacity(n)

Mutate(n, o, h) ==
    /\ opacity' = [opacity EXCEPT ![n] = o]
    /\ hist' = [hist EXCEPT ![n] = h]
    /\ calls' = calls + 1
    /\ UNCHANGED <<before, alive, children, map, commands, pc, ran, registered,
                   sinks, assets, inserts, applied>>

Set(n, v) ==
    /\ CanCall(n)
    /\ Mutate(n, set(opacity[n], v),
              Called("set", opacity[n], v, Zero, hist[n].faded))

FadeIn(n, d) ==
    /\ CanCall(n)
    /\ Mutate(n, fade_in(opacity[n], d),
              Called("fade_in", opacity[n], One, d, hist[n].faded))

FadeOut(n, d) ==
    /\ CanCall(n)
    /\ Mutate(n, fade_out(opacity[n], d),
              Called("fade_out", opacity[n], Zero, d, TRUE))

InterpolateTo(n, v, d) ==
    /\ CanCall(n)
    /\ Mutate(n, interpolate_to(opacity[n], v, d),
              Called("interpolate_to", opacity[n], v, d, hist[n].faded))

InterpolateBySpeed(n, v, d) ==
    /\ CanCall(n)
    /\ Mutate(n, interpolate_by_speed(opacity[n], v, d),
              Called("interpolate_by_speed", opacity[n], v, d, hist[n].faded))

----------------------------------------------------------------------------
(* The systems of the Fading and PostFade sets. *)

\* interpolate, with dt = time.delta_secs()
interpolate(dt) ==
    /\ Running("Fading")
    /\ \A n \in Nodes : hist[n] # NoHist => hist[n].steps < MaxSteps
    /\ opacity' = [n \in Nodes |->
                     IF HasOpacity(n) THEN interpolate_entity(opacity[n], dt)
                     ELSE opacity[n]]
    /\ commands' = commands \cup
                     {n \in Nodes : HasOpacity(n)
                                    /\ requests_despawn(opacity[n], dt)}
    /\ hist' = [n \in Nodes |->
                  IF HasOpacity(n) /\ hist[n] # NoHist
                  THEN [hist[n] EXCEPT
                          !.steps = @ + 1,
                          !.elapsed = Add(@, dt),
                          !.reqs = IF requests_despawn(opacity[n], dt)
                                   THEN @ + 1 ELSE @]
                  ELSE hist[n]]
    /\ pc' = AfterSet(pc)
    /\ UNCHANGED <<before, alive, children, map, ran, registered, sinks, assets,
                   inserts, applied, calls>>

\* the entities a despawn of the entities S removes: those that still exist,
\* together with their descendants
Despawned(S) ==
    (S \cap alive) \cup UNION {Descendants(n) : n \in S \cap alive}

\* the World without the entities G
RemoveEntities(G) ==
    /\ alive' = alive \ G
    /\ opacity' = [n \in Nodes |-> IF n \in G THEN NoOpacity ELSE opacity[n]]
    /\ children' = [n \in Nodes |->
                      IF n \in G THEN <<>> ELSE RemoveFromSeq(children[n], G)]
    /\ sinks' = [n \in Nodes |-> IF n \in G THEN NoSinks ELSE sinks[n]]
    /\ hist' = [n \in Nodes |-> IF n \in G THEN NoHist ELSE hist[n]]

\* ApplyDeferred: the queued try_despawn commands take effect
ApplyDeferred ==
    /\ Running("PostFade")
    /\ RemoveEntities(Despawned(commands))
    /\ commands' = {}
    /\ pc' = AfterSet(pc)
    /\ UNCHANGED <<before, map, ran, registered, assets, inserts, applied,
                   calls>>

----------------------------------------------------------------------------
(* The calculate_opacity system. *)

\* calculate_opacity without its map.0.clear()
clear_nothing(m) == m

\* map.0.clear()
clear(m) == EmptyMap

\* an insert that keeps the value already stored for the entity
insert_if_absent(m, e, v) ==
    [x \in DOMAIN m \cup {e} |-> IF x \in DOMAIN m THEN m[x] ELSE v]

\* map.0.insert(entity, opacity)
insert(m, e, v) == [x \in DOMAIN m \cup {e} |-> IF x = e THEN v ELSE m[x]]

\* query.get(entity).map(|(_, x)| x.get()).unwrap_or(1.)
own(e) == IF HasOpacity(e) THEN get(opacity[e]) ELSE One

\* the pushes of "for entity in children.iter().copied()" for a popped
\* (entity, opacity)
pushes(e, v) ==
    [i \in 1 .. Len(children[e]) |-> <<children[e][i], Mul(v, own(children[e][i]))>>]

\* the while loop with "if map.0.contains_key(&entity) continue" ahead of
\* the insert: an entity popped when it has an entry is skipped
RECURSIVE drain_skipping_recorded(_, _)
drain_skipping_recorded(acc, stack) ==
    IF stack = <<>> THEN acc
    ELSE LET top == stack[Len(stack)]
             rest == SubSeq(stack, 1, Len(stack) - 1)
         IN  IF top[1] \in DOMAIN acc.map
             THEN drain_skipping_recorded(acc, rest)
             ELSE drain_skipping_recorded(
                      [map |-> insert(acc.map, top[1], top[2]),
                       inserts |-> Append(acc.inserts, top)],
                      rest \o pushes(top[1], top[2]))

\* "while let Some((entity, opacity)) = stack.pop()": acc is the map and the
\* insert calls made so far
RECURSIVE drain(_, _)
drain(acc, stack) ==
    IF stack = <<>> THEN acc
    ELSE LET top == stack[Len(stack)]
             rest == SubSeq(stack, 1, Len(stack) - 1)
         IN  drain([map |-> insert(acc.map, top[1], top[2]),
                    inserts |-> Append(acc.inserts, top)],
                   rest \o pushes(top[1], top[2]))

\* the loop over the query without "if map.0.contains_key(&entity) continue"
RECURSIVE roots_without_skip(_, _, _)
roots_without_skip(acc, order, i) ==
    IF i > Len(order) THEN acc
    ELSE roots_without_skip(
             drain(acc, <<<<order[i], get(opacity[order[i]])>>>>), order, i + 1)

\* "for (entity, opacity) in &query", the query yielding its entities in the
\* order given
RECURSIVE roots(_, _, _)
roots(acc, order, i) ==
    IF i > Len(order) THEN acc
    ELSE IF order[i] \in DOMAIN acc.map
         THEN roots(acc, order, i + 1)
         ELSE roots(drain(acc, <<<<order[i], get(opacity[order[i]])>>>>),
                    order, i + 1)

calculate(order) == roots([map |-> clear(map), inserts |-> <<>>], order, 1)

calculate_opacity(order) ==
    /\ Running("Calculate")
    /\ map' = calculate(order).map
    /\ inserts' = calculate(order).inserts
    /\ before' = DOMAIN map
    /\ pc' = AfterSet(pc)
    /\ UNCHANGED <<alive, opacity, children, commands, ran, registered,
                   sinks, assets, applied, hist, calls>>

\* the PostUpdate schedule has run; the App goes on to its next update
NextFrame ==
    /\ pc = Done
    /\ pc' = 1
    /\ ran' = {}
    /\ applied' = {}
    /\ inserts' = <<>>
    /\ before' = {}
    /\ UNCHANGED <<alive, opacity, children, map, commands, registered,
                   sinks, assets, hist, calls>>

----------------------------------------------------------------------------
(* The sinks: the impls of OpacityQuery and OpacityAsset, and the          *)
(* apply_opacity_query<Q> systems of the Apply set.  An apply_opacity      *)
(* takes the entity's components (of which it touches those of its query   *)
(* item), the context cx (the material assets) and the opacity, and gives  *)
(* both back.                                                              *)

SinkTypes ==
    {"Sprite", "TextColor", "ImageNode", "UiColorQuery", "MeshMaterial2d",
     "MeshMaterial3d"}

\* impl OpacityQuery for &mut Sprite
Sprite_apply_opacity(this, cx, v) ==
    [item |-> [this EXCEPT !.sprite = set_alpha(@, v)], cx |-> cx]

\* impl OpacityQuery for &mut TextColor
TextColor_apply_opacity(this, cx, v) ==
    [item |-> [this EXCEPT !.text = set_alpha(@, v)], cx |-> cx]

\* ImageNode's apply_opacity writing the alpha of the entity's Sprite
ImageNode_apply_opacity_on_sprite(this, cx, v) ==
    [item |-> [this EXCEPT !.sprite = set_alpha(@, v)], cx |-> cx]

\* impl OpacityQuery for &mut ImageNode
ImageNode_apply_opacity(this, cx, v) ==
    [item |-> [this EXCEPT !.image = set_alpha(@, v)], cx |-> cx]

\* the match of UiColorQuery's apply_opacity whose Border arm runs on into
\* the Background arm
UiColorQuery_apply_opacity_fallthrough(this, cx, v) ==
    [item |->
        CASE this.ui = "None" -> this
          [] this.ui = "Border" ->
                [this EXCEPT !.border = set_alpha(@, v),
                             !.background = set_alpha(@, v)]
          [] this.ui = "Background" ->
                [this EXCEPT !.background = set_alpha(@, v)]
          [] this.ui = "Both" ->
                [this EXCEPT !.border = set_alpha(@, v),
                             !.background = set_alpha(@, v)],
     cx |-> cx]

\* impl OpacityQuery for UiColorQuery
UiColorQuery_apply_opacity(this, cx, v) ==
    [item |->
        CASE this.ui = "None" -> this
          [] this.ui = "Border" -> [this EXCEPT !.border = set_alpha(@, v)]
          [] this.ui = "Background" ->
                [this EXCEPT !.background = set_alpha(@, v)]
          [] this.ui = "Both" ->
                [this EXCEPT !.border = set_alpha(@, v),
                             !.background = set_alpha(@, v)],
     cx |-> cx]

\* impl OpacityAsset for ColorMaterial
ColorMaterial_apply_opacity(mat, v) == set_alpha(mat, v)

\* StandardMaterial's apply_opacity writing nothing
StandardMaterial_apply_opacity_unchanged(mat, v) == mat

\* impl OpacityAsset for StandardMaterial
StandardMaterial_apply_opacity(mat, v) == set_alpha(mat, v)

\* MeshMaterial2d's apply_opacity storing a material under a handle the
\* store does not hold (get_or_insert_with in place of get_mut)
MeshMaterial2d_apply_opacity_inserting(this, cx, v) ==
    [item |-> this,
     cx |-> [cx EXCEPT !.m2d[this.mesh2d] =
                IF @ # NoColor THEN ColorMaterial_apply_opacity(@, v)
                ELSE [rgb |-> "material", a |-> v]]]

\* impl OpacityQuery for &MeshMaterial2d<T>, T = ColorMaterial
MeshMaterial2d_apply_opacity(this, cx, v) ==
    [item |-> this,
     cx |-> IF cx.m2d[this.mesh2d] # NoColor
            THEN [cx EXCEPT !.m2d[this.mesh2d] =
                                ColorMaterial_apply_opacity(@, v)]
            ELSE cx]

\* impl OpacityQuery for &MeshMaterial3d<T>, T = StandardMaterial
MeshMaterial3d_apply_opacity(this, cx, v) ==
    [item |-> this,
     cx |-> IF cx.m3d[this.mesh3d] # NoColor
            THEN [cx EXCEPT !.m3d[this.mesh3d] =
                                StandardMaterial_apply_opacity(@, v)]
            ELSE cx]

\* Q::apply_opacity
apply_opacity(Q, this, cx, v) ==
    CASE Q = "Sprite" -> Sprite_apply_opacity(this, cx, v)
      [] Q = "TextColor" -> TextColor_apply_opacity(this, cx, v)
      [] Q = "ImageNode" -> ImageNode_apply_opacity(this, cx, v)
      [] Q = "UiColorQuery" -> UiColorQuery_apply_opacity(this, cx, v)
      [] Q = "MeshMaterial2d" -> MeshMaterial2d_apply_opacity(this, cx, v)
      [] Q = "MeshMaterial3d" -> MeshMaterial3d_apply_opacity(this, cx, v)

\* whether Query<(Entity, Q)> matches entity n
Has(Q, n) ==
    /\ n \in alive
    /\ CASE Q = "Sprite" -> sinks[n].sprite # NoColor
         [] Q = "TextColor" -> sinks[n].text # NoColor
         [] Q = "ImageNode" -> sinks[n].image # NoColor
         [] Q = "UiColorQuery" ->
               /\ sinks[n].ui # NoUi
               /\ sinks[n].background # NoColor
               /\ sinks[n].border # NoColor
         [] Q = "MeshMaterial2d" -> sinks[n].mesh2d # NoHandle
         [] Q = "MeshMaterial3d" -> sinks[n].mesh3d # NoHandle

QueryEntities(Q) == {n \in Nodes : Has(Q, n)}

\* one call of Q::apply_opacity on entity e, on the state st of the sink
\* components, the assets and the calls made
call_apply_opacity(Q, st, e, v) ==
    LET r == apply_opacity(Q, st.sinks[e], st.assets, v)
    IN  [sinks |-> [st.sinks EXCEPT ![e] = r.item],
         assets |-> r.cx,
         applied |-> st.applied \cup {<<Q, e, v>>}]

\* the loop body of apply_opacity_query with the map lookup defaulted:
\* map.0.get(&entity).copied().unwrap_or(1.0)
apply_entity_defaulted(Q, st, e) ==
    call_apply_opacity(Q, st, e, IF e \in DOMAIN map THEN map[e] ELSE One)

\* the loop body of apply_opacity_query:
\* "if let Some(opacity) = map.0.get(&entity)"
apply_entity(Q, st, e) ==
    IF e \in DOMAIN map THEN call_apply_opacity(Q, st, e, map[e]) ELSE st

\* "for (entity, mut component) in &mut query", the query yielding its
\* entities in the order given
RECURSIVE apply_all(_, _, _, _)
apply_all(Q, st, order, i) ==
    IF i > Len(order) THEN st
    ELSE apply_all(Q, apply_entity(Q, st, order[i]), order, i + 1)

\* the system apply_opacity_query::<Q>
apply_opacity_query(Q, order) ==
    /\ Running("Apply")
    /\ Q \in registered \ ran
    /\ LET st == apply_all(Q, [sinks |-> sinks, assets |-> assets,
                               applied |-> applied], order, 1)
       IN  /\ sinks' = st.sinks
           /\ assets' = st.assets
           /\ applied' = st.applied
    /\ ran' = ran \cup {Q}
    /\ pc' = IF ran \cup {Q} = registered THEN AfterSet(pc) ELSE pc
    /\ UNCHANGED <<before, alive, opacity, children, map, commands,
                   registered, inserts, hist, calls>>

----------------------------------------------------------------------------
(* Changes the application's own systems make to the World before          *)
(* PostUpdate: the hierarchy and the Opacity components that               *)
(* calculate_opacity reads through its queries.                            *)

CanEdit == pc = 1 /\ calls < MaxEdits

\* commands.entity(n).insert(Opacity::new(v))
InsertOpacity(n, v) ==
    /\ CanEdit
    /\ n \in alive
    /\ ~HasOpacity(n)
    /\ opacity' = [opacity EXCEPT ![n] = new(v)]
    /\ calls' = calls + 1
    /\ UNCHANGED <<before, alive, children, map, commands, pc, ran,
                   registered, sinks, assets, inserts, applied, hist>>

\* commands.entity(n).remove::<Opacity>()
RemoveOpacity(n) ==
    /\ CanEdit
    /\ HasOpacity(n)
    /\ opacity' = [opacity EXCEPT ![n] = NoOpacity]
    /\ hist' = [hist EXCEPT ![n] = NoHist]
    /\ calls' = calls + 1
    /\ UNCHANGED <<before, alive, children, map, commands, pc, ran,
                   registered, sinks, assets, inserts, applied>>

\* commands.entity(p).add_child(n): n leaves the Children of its parent and
\* is appended to those of p, which is neither n nor below n
SetParent(n, p) ==
    /\ CanEdit
    /\ n \in alive
    /\ p \in alive \ ({n} \cup Descendants(n))
    /\ ParentOf(n) # p
    /\ children' = [x \in Nodes |->
                      IF x = p THEN Append(children[x], n)
                      ELSE RemoveFromSeq(children[x], {n})]
    /\ calls' = calls + 1
    /\ UNCHANGED <<before, alive, opacity, map, commands, pc, ran,
                   registered, sinks, assets, inserts, applied, hist>>

\* commands.entity(n).remove::<ChildOf>()
RemoveParent(n) ==
    /\ CanEdit
    /\ n \in alive
    /\ ParentOf(n) # 0
    /\ children' = [x \in Nodes |-> RemoveFromSeq(children[x], {n})]
    /\ calls' = calls + 1
    /\ UNCHANGED <<before, alive, opacity, map, commands, pc, ran,
                   registered, sinks, assets, inserts, applied, hist>>

\* commands.entity(n).despawn()
Despawn(n) ==
    /\ CanEdit
    /\ n \in alive
    /\ RemoveEntities(Despawned({n}))
    /\ calls' = calls + 1
    /\ UNCHANGED <<before, map, commands, pc, ran, registered, assets,
                   inserts, applied>>

----------------------------------------------------------------------------
(* One entity with Opacity::new(v), no sink type registered. *)

Handles == {1, 2}

\* Assets<ColorMaterial> and Assets<StandardMaterial> holding nothing
NoAssets ==
    [m2d |-> [h \in Handles |-> NoColor], m3d |-> [h \in Handles |-> NoColor]]

InitValue ==
    /\ alive = {1}
    /\ \E v \in Vals :
         /\ opacity = [n \in Nodes |-> IF n = 1 THEN new(v) ELSE NoOpacity]
         /\ hist = [n \in Nodes |->
                      IF n = 1 THEN Called("new", new(v), v, Zero, FALSE) ELSE NoHist]
    /\ children = [n \in Nodes |-> <<>>]
    /\ map = EmptyMap
    /\ commands = {}
    /\ pc = 1
    /\ ran = {}
    /\ registered = {}
    /\ sinks = [n \in Nodes |-> NoSinks]
    /\ assets = NoAssets
    /\ inserts = <<>>
    /\ before = {}
    /\ applied = {}
    /\ calls = 0

NextValue ==
    \/ \E n \in Nodes, v \in Vals : Set(n, v)
    \/ \E n \in Nodes, d \in Durations : FadeIn(n, d)
    \/ \E n \in Nodes, d \in Durations : FadeOut(n, d)
    \/ \E n \in Nodes, v \in Vals, d \in Durations : InterpolateTo(n, v, d)
    \/ \E n \in Nodes, v \in Vals, d \in Durations : InterpolateBySpeed(n, v, d)
    \/ \E dt \in Deltas : interpolate(dt)
    \/ ApplyDeferred
    \/ \E order \in Perms(OpacityQueryEntities) : calculate_opacity(order)
    \/ NextFrame

SpecValue == InitValue /\ [][NextValue]_vars

----------------------------------------------------------------------------
(* A forest of NumNodes entities, some with Opacity::new(v), no sink type  *)
(* registered.  Entity ids carry no meaning (every query order and every   *)
(* order of children is tried), so the initial forests are the ones whose  *)
(* parents have the smaller id.                                            *)

\* the value of the Opacity of entity n, if it has one: 1/2, 1/4, 1/8, ...
RECURSIVE Pow2(_)
Pow2(k) == IF k = 0 THEN 1 ELSE 2 * Pow2(k - 1)

OwnVal(n) == R(1, Pow2(n))

\* the forests on the entities 1 .. N: the parent of each, 0 for none
Forests(N) == {p \in [1 .. N -> 0 .. N] : \A n \in 1 .. N : p[n] < n}

\* the elements of S in the order in which ord lists them
Ordered(S, ord) == SelectSeq(ord, LAMBDA e : e \in S)

\* the entities 1 .. N in some forest, before the first frame
InitWorld(N) ==
    /\ alive = 1 .. N
    /\ \E p \in Forests(N), ord \in Perms(1 .. N) :
         children = [n \in Nodes |->
                       Ordered({c \in 1 .. N : p[c] = n}, ord)]
    /\ map = EmptyMap
    /\ commands = {}
    /\ pc = 1
    /\ ran = {}
    /\ inserts = <<>>
    /\ before = {}
    /\ applied = {}
    /\ calls = 0

InitCalc ==
    /\ InitWorld(NumNodes)
    /\ \E S \in SUBSET Nodes :
         opacity = [n \in Nodes |->
                      IF n \in S THEN new(OwnVal(n)) ELSE NoOpacity]
    /\ hist = [n \in Nodes |-> NoHist]
    /\ registered = {}
    /\ sinks = [n \in Nodes |-> NoSinks]
    /\ assets = NoAssets

NextCalc ==
    \/ \E n \in Nodes : InsertOpacity(n, OwnVal(n))
    \/ \E n \in Nodes : RemoveOpacity(n)
    \/ \E n, p \in Nodes : SetParent(n, p)
    \/ \E n \in Nodes : RemoveParent(n)
    \/ \E n \in Nodes : Despawn(n)
    \/ \E dt \in Deltas : interpolate(dt)
    \/ ApplyDeferred
    \/ \E order \in Perms(OpacityQueryEntities) : calculate_opacity(order)
    \/ NextFrame

SpecCalc == InitCalc /\ [][NextCalc]_vars

----------------------------------------------------------------------------
(* A forest of NumSceneNodes entities with the directly held colour sinks  *)
(* (Sprite, TextColor, ImageNode) registered: an entity has a Sprite, or a *)
(* TextColor and an ImageNode; an Opacity is stable at 1/2 or fading in    *)
(* over 1 s.                                                               *)

SceneNodes == 1 .. NumSceneNodes


\* the components of the entities: those of bundle[n] for a scene entity
Spawned(bundle) ==
    [n \in Nodes |-> IF n \in SceneNodes THEN bundle[n] ELSE NoSinks]

InitScene(opacities) ==
    /\ InitWorld(NumSceneNodes)
    /\ \E o \in [SceneNodes -> opacities] :
         opacity = [n \in Nodes |->
                      IF n \in SceneNodes THEN o[n] ELSE NoOpacity]
    /\ hist = [n \in Nodes |-> NoHist]
    /\ assets = NoAssets

ColourBundles ==
    {[NoSinks EXCEPT !.sprite = Color("sprite", One)],
     [NoSinks EXCEPT !.text = Color("text", One),
                     !.image = Color("image", One)]}

InitColour ==
    /\ InitScene({NoOpacity, new(Half), new_fade_in(One)})
    /\ registered = {"Sprite", "TextColor", "ImageNode"}
    /\ \E bundle \in [SceneNodes -> ColourBundles] : sinks = Spawned(bundle)

Frame ==
    \/ \E dt \in Deltas : interpolate(dt)
    \/ ApplyDeferred
    \/ \E order \in Perms(OpacityQueryEntities) : calculate_opacity(order)
    \/ NextFrame

NextColour ==
    \/ \E n \in Nodes : RemoveOpacity(n)
    \/ Frame
    \/ \E order \in Perms(QueryEntities("Sprite")) :
         apply_opacity_query("Sprite", order)
    \/ \E order \in Perms(QueryEntities("TextColor")) :
         apply_opacity_query("TextColor", order)
    \/ \E order \in Perms(QueryEntities("ImageNode")) :
         apply_opacity_query("ImageNode", order)

SpecColour == InitColour /\ [][NextColour]_vars

----------------------------------------------------------------------------
(* Scenes of UI entities with UiColorQuery registered: an entity has no UI *)
(* component, BackgroundColor and BorderColor alone, or both with one of   *)
(* the four UiOpacity values; an Opacity is stable at 1/2.                 *)

UiBundle(selector) ==
    [NoSinks EXCEPT !.ui = selector,
                    !.background = Color("background", One),
                    !.border = Color("border", One)]

UiBundles ==
    {NoSinks, UiBundle(NoUi), UiBundle("None"), UiBundle("Border"),
     UiBundle("Background"), UiBundle("Both")}

InitUi ==
    /\ InitScene({NoOpacity, new(Half)})
    /\ registered = {"UiColorQuery"}
    /\ \E bundle \in [SceneNodes -> UiBundles] : sinks = Spawned(bundle)

NextUi ==
    \/ Frame
    \/ \E order \in Perms(QueryEntities("UiColorQuery")) :
         apply_opacity_query("UiColorQuery", order)

SpecUi == InitUi /\ [][NextUi]_vars

----------------------------------------------------------------------------
(* Scenes of meshes with MeshMaterial2d<ColorMaterial> and                 *)
(* MeshMaterial3d<StandardMaterial> registered: an entity holds one        *)
(* material handle, which other entities may hold too; the stores hold the *)
(* materials of some of the handles (a handle outlives an unloaded asset). *)

MatBundles ==
    {[NoSinks EXCEPT !.mesh2d = h] : h \in Handles}
        \cup {[NoSinks EXCEPT !.mesh3d = h] : h \in Handles}

\* the stores holding a material, alpha 1.0, for each handle of P
Loaded(P) ==
    [m2d |-> [h \in Handles |->
                IF h \in P THEN Color("material", One) ELSE NoColor],
     m3d |-> [h \in Handles |->
                IF h \in P THEN Color("material", One) ELSE NoColor]]

InitMat ==
    /\ InitWorld(NumSceneNodes)
    /\ \E o \in [SceneNodes -> {NoOpacity, new(Half)}] :
         opacity = [n \in Nodes |->
                      IF n \in SceneNodes THEN o[n] ELSE NoOpacity]
    /\ hist = [n \in Nodes |-> NoHist]
    /\ registered = {"MeshMaterial2d", "MeshMaterial3d"}
    /\ \E bundle \in [SceneNodes -> MatBundles] : sinks = Spawned(bundle)
    /\ \E P \in SUBSET Handles : assets = Loaded(P)

NextMat ==
    \/ Frame
    \/ \E order \in Perms(QueryEntities("MeshMaterial2d")) :
         apply_opacity_query("MeshMaterial2d", order)
    \/ \E order \in Perms(QueryEntities("MeshMaterial3d")) :
         apply_opacity_query("MeshMaterial3d", order)

SpecMat == InitMat /\ [][NextMat]_vars

----------------------------------------------------------------------------
(* Scenes with all six built-in sink types registered: an entity has every *)
(* sink component, its two meshes holding the same handle, which the      *)
(* other entities may hold too, and its Opacity is stable at 1/2 (so the   *)
(* entries are 1/2, 1/4, ... down a chain); the stores hold every          *)
(* material.                                                               *)

Everything(h, selector) ==
    [sprite |-> Color("sprite", One), text |-> Color("text", One),
     image |-> Color("image", One), ui |-> selector,
     background |-> Color("background", One),
     border |-> Color("border", One), mesh2d |-> h, mesh3d |-> h]

\* entity 1 has UiOpacity::Both and holds handle 1, the others have
\* UiOpacity::Border and all hold handle h
AllBundles(h) ==
    [n \in SceneNodes |->
        IF n = 1 THEN Everything(1, "Both") ELSE Everything(h, "Border")]

InitAll ==
    /\ InitWorld(NumSceneNodes)
    /\ opacity = [n \in Nodes |->
                    IF n \in SceneNodes THEN new(Half) ELSE NoOpacity]
    /\ hist = [n \in Nodes |-> NoHist]
    /\ registered = SinkTypes
    /\ \E h \in Handles : sinks = Spawned(AllBundles(h))
    /\ assets = Loaded(Handles)

NextAll ==
    \/ Frame
    \/ \E Q \in SinkTypes : \E order \in Perms(QueryEntities(Q)) :
         apply_opacity_query(Q, order)

SpecAll == InitAll /\ [][NextAll]_vars

----------------------------------------------------------------------------
(* Scenes of Sprites with the Sprite sink registered, where an Opacity is  *)
(* stable at 1/2 or fading out from 1.0 over 1 s.                          *)

InitDespawn ==
    /\ InitScene({NoOpacity, new(Half), fade_out(new(One), One)})
    /\ registered = {"Sprite"}
    /\ sinks = Spawned([n \in SceneNodes |->
                          [NoSinks EXCEPT !.sprite = Color("sprite", One)]])

NextDespawn ==
    \/ Frame
    \/ \E order \in Perms(QueryEntities("Sprite")) :
         apply_opacity_query("Sprite", order)

SpecDespawn == InitDespawn /\ [][NextDespawn]_vars

----------------------------------------------------------------------------
(* One entity whose Opacity is as the last mutator call on it left it, and *)
(* frames without end: the App runs PostUpdate in every update, so a       *)
(* system of the schedule that can run does run.                           *)

\* the values a constructor or a mutator call on new(c) leaves
LiveStarts ==
    {new(c) : c \in Vals}
        \cup {new_fade_in(d) : d \in Durations}
        \cup {fade_in(new(c), d) : c \in Vals, d \in Durations}
        \cup {fade_out(new(c), d) : c \in Vals, d \in Durations}
        \cup UNION {{interpolate_to(new(c), v, d),
                     interpolate_by_speed(new(c), v, d)} :
                        c \in Vals, v \in Vals, d \in Durations}

InitLive ==
    /\ alive = {1}
    /\ \E o \in LiveStarts :
         opacity = [n \in Nodes |-> IF n = 1 THEN o ELSE NoOpacity]
    /\ hist = [n \in Nodes |-> NoHist]
    /\ children = [n \in Nodes |-> <<>>]
    /\ map = EmptyMap
    /\ commands = {}
    /\ pc = 1
    /\ ran = {}
    /\ registered = {}
    /\ sinks = [n \in Nodes |-> NoSinks]
    /\ assets = NoAssets
    /\ inserts = <<>>
    /\ before = {}
    /\ applied = {}
    /\ calls = 0

SpecLive == InitLive /\ [][Frame]_vars /\ WF_vars(Frame)

----------------------------------------------------------------------------
(* A forest of NumSceneNodes entities whose Opacity values are as a        *)
(* constructor or a mutator call with arguments in [0, 1] left them, no    *)
(* sink type registered.                                                   *)

TreeStarts ==
    {NoOpacity, new(Half), new_fade_in(Two), fade_out(new(One), Two),
     fade_in(new(Half), One),
     interpolate_to(new(One), Half, One),
     interpolate_to(new(Zero), One, Two),
     interpolate_by_speed(new(One), One, One),
     interpolate_by_speed(new(Half), Zero, One)}

InitTree ==
    /\ InitScene(TreeStarts)
    /\ registered = {}
    /\ sinks = [n \in Nodes |-> NoSinks]

SpecTree == InitTree /\ [][Frame]_vars

----------------------------------------------------------------------------
(* Claims about one Opacity value, checked under SpecValue. *)

AbsR(x) == IF x[1] < 0 THEN Neg(x) ELSE x

Last(n, op) == HasOpacity(n) /\ hist[n].op = op

\* C2: after fade_out(d) and interpolation steps alone, a removal request has
\* been emitted at most once, it is emitted in the step that brings current to
\* <= 0, and once it is emitted the fade is complete: current == 0.0 and
\* speed == 0.
C2_FadeOutCompletes ==
    \A n \in Nodes : Last(n, "fade_out") =>
        /\ hist[n].reqs <= 1
        /\ (hist[n].steps > 0 /\ Le(opacity[n].current, Zero)) <=> hist[n].reqs = 1
        /\ hist[n].reqs = 1 =>
              opacity[n].current = Zero /\ opacity[n].speed = Zero

\* C3: after fade_in(d) and interpolation steps alone whose dt sum to exactly
\* d, current == 1.0 and speed == 0.
C3_FadeInCompletes ==
    \A n \in Nodes : (Last(n, "fade_in") /\ hist[n].elapsed = hist[n].d) =>
        opacity[n].current = One /\ opacity[n].speed = Zero

Cancelling == {"set", "fade_in", "interpolate_to", "interpolate_by_speed"}

\* C4: once set, fade_in, interpolate_to or interpolate_by_speed has been
\* called after a fade_out, no interpolation step emits a removal request for
\* the entity (until fade_out is called again); and after set(v) the value
\* stays current == target == v, speed == 0, despawns == false.
C4_CancelStopsDespawn ==
    \A n \in Nodes :
        /\ (HasOpacity(n) /\ hist[n].faded /\ hist[n].op \in Cancelling) =>
              hist[n].reqs = 0 /\ n \notin commands
        /\ Last(n, "set") =>
              /\ opacity[n].current = hist[n].v
              /\ opacity[n].target = hist[n].v
              /\ opacity[n].speed = Zero
              /\ ~opacity[n].despawns

\* a fade-out cancelled by interpolate_to(0.0, t) has brought current to 0.0
\* by interpolation steps
C4_Witness ==
    \E n \in Nodes :
        /\ Last(n, "interpolate_to")
        /\ hist[n].faded
        /\ hist[n].c0 # Zero
        /\ hist[n].steps > 0
        /\ opacity[n].current = Zero

\* the summed dt at which a call of interpolate_to / interpolate_by_speed is
\* claimed to arrive at its target
ArrivalTime(h) ==
    IF h.op = "interpolate_to" THEN h.d ELSE Mul(AbsR(Sub(h.v, h.c0)), h.d)

\* C8: after interpolate_to(v, d) from c # v, current equals v exactly from
\* summed dt d on and not earlier; after interpolate_by_speed(v, d), from
\* summed dt |v - c| * d on and not earlier; both leave target == v and
\* despawns == false.
C8_ArrivalTimes ==
    \A n \in Nodes :
        (/\ HasOpacity(n)
         /\ hist[n].op \in {"interpolate_to", "interpolate_by_speed"}
         /\ hist[n].v # hist[n].c0) =>
            /\ opacity[n].target = hist[n].v
            /\ ~opacity[n].despawns
            /\ Lt(hist[n].elapsed, ArrivalTime(hist[n])) =>
                  opacity[n].current # hist[n].v
            /\ Le(ArrivalTime(hist[n]), hist[n].elapsed) =>
                  opacity[n].current = hist[n].v

\* interpolate_by_speed over half the range has arrived, in half of d
C8_Witness ==
    \E n \in Nodes :
        /\ Last(n, "interpolate_by_speed")
        /\ AbsR(Sub(hist[n].v, hist[n].c0)) = Half
        /\ hist[n].d = Two
        /\ hist[n].elapsed = One
        /\ opacity[n].current = hist[n].v

\* C9: is_despawning() is true exactly when fade_out was the last mutator
\* called and its fade has not completed (current has not reached target 0.0
\* by an interpolation step).
C9_IsDespawning ==
    \A n \in Nodes : HasOpacity(n) =>
        (is_despawning(opacity[n]) <=>
            /\ hist[n].op = "fade_out"
            /\ ~(hist[n].steps > 0 /\ opacity[n].current = opacity[n].target))

----------------------------------------------------------------------------
(* Claims about calculate_opacity, checked under SpecCalc. *)

\* calculate_opacity has run in this frame and the World is as it read it
Calculated ==
    \E i \in 1 .. Len(Schedule) : Schedule[i] = "Calculate" /\ pc > i

\* the entities that carry an Opacity or are below an entity that does
InScope ==
    {n \in alive : HasOpacity(n)
                   \/ \E a \in Nodes : HasOpacity(a) /\ n \in Descendants(a)}

\* effective(parent(n)), 1.0 if n has no parent or the parent has no entry
ParentEffective(n) ==
    IF ParentOf(n) # 0 /\ ParentOf(n) \in DOMAIN map
    THEN map[ParentOf(n)] ELSE One

\* C1: after calculate_opacity, whatever order the query and the Children
\* were iterated in, every entity n of the map has
\* map[n] == own(n) * effective(parent(n)).
C1_EffectiveIsProduct ==
    Calculated =>
        \A n \in DOMAIN map : map[n] = Mul(own(n), ParentEffective(n))

\* a root with a, its child with b, its grandchild without Opacity, the child
\* having been yielded by the query before the root (it is inserted twice)
C1_Witness ==
    /\ Calculated
    /\ \E r, c, g \in DOMAIN map :
         /\ HasOpacity(r) /\ HasOpacity(c) /\ ~HasOpacity(g)
         /\ ParentOf(r) = 0 /\ ParentOf(c) = r /\ ParentOf(g) = c
         /\ get(opacity[r]) # get(opacity[c])
         /\ map[r] = get(opacity[r])
         /\ map[c] = Mul(get(opacity[r]), get(opacity[c]))
         /\ map[g] = map[c]
         /\ inserts[1][1] = c

\* C5: after calculate_opacity the keys of the map are exactly the entities
\* that carry an Opacity or are descendants of one that does, in the World as
\* it is then.
C5_KeysAreScope == Calculated => DOMAIN map = InScope

\* an entity that had an entry before this run, still exists and has lost
\* its Opacity-bearing ancestry, has none after it
C5_Witness ==
    /\ Calculated
    /\ \E n \in alive : n \in before /\ n \notin DOMAIN map
    /\ DOMAIN map # {}

----------------------------------------------------------------------------
(* Claims about the Apply set, checked under SpecColour and SpecUi. *)

\* the calls of Q::apply_opacity made by the system of Q in this frame
CallsOf(Q) == {c \in applied : c[1] = Q}

\* the calls made by each system that has run are those of the entities with
\* the sink's component and an entry, each with the value of its entry
C6_CallsMatchMap ==
    \A Q \in ran :
        CallsOf(Q) = {<<Q, n, map[n]>> : n \in QueryEntities(Q) \cap DOMAIN map}

\* a step of the Apply set leaves the sinks of an entity without entry alone
C6_NoEntryUntouched ==
    Running("Apply") => \A n \in Nodes \ DOMAIN map : sinks'[n] = sinks[n]

\* C6: the system of each registered sink type calls apply_opacity on
\* exactly the entities that have the sink's component and an entry in the
\* map, with the value of the entry; and no step of the Apply set changes a
\* sink component of an entity without an entry.
C6_ApplyExactly == []C6_CallsMatchMap /\ [][C6_NoEntryUntouched]_vars

\* the Sprite system has run over an entity with an entry and over a Sprite
\* whose entity has none and keeps the alpha it was given in an earlier frame
C6_Witness ==
    /\ "Sprite" \in ran
    /\ CallsOf("Sprite") # {}
    /\ \E n \in QueryEntities("Sprite") :
         n \notin DOMAIN map /\ sinks[n].sprite.a # One

\* the product of the current values on the chain from n up to its root (1.0
\* for an entity without Opacity)
RECURSIVE ChainProduct(_)
ChainProduct(n) ==
    Mul(own(n), IF ParentOf(n) = 0 THEN One ELSE ChainProduct(ParentOf(n)))

\* C7: the sets run in the order Fading, PostFade, Calculate, Apply, so when
\* the frame's schedule is done the alpha of every Sprite, TextColor and
\* ImageNode of an entity with an entry is the product of the current values
\* (as the frame's interpolate left them) along its ancestor chain.
C7_NoFrameLag ==
    pc = Done =>
        \A n \in DOMAIN map :
            /\ Has("Sprite", n) => sinks[n].sprite.a = ChainProduct(n)
            /\ Has("TextColor", n) => sinks[n].text.a = ChainProduct(n)
            /\ Has("ImageNode", n) => sinks[n].image.a = ChainProduct(n)

\* a root at 0.5 in the middle of its fade-in, its child at 0.5: the child's
\* entry and the alpha of its Sprite are 0.25
C7_Witness ==
    /\ pc = Done
    /\ \E r, c \in DOMAIN map :
         /\ ParentOf(c) = r
         /\ opacity[r].current = Half /\ opacity[r].speed # Zero
         /\ HasOpacity(c) /\ opacity[c].current = Half
         /\ map[c] = Quarter
         /\ Has("Sprite", c) /\ sinks[c].sprite.a = Quarter

\* the step is the run of the UiColorQuery system
UiStep == "UiColorQuery" \notin ran /\ "UiColorQuery" \in ran'

\* what the run of the UiColorQuery system leaves of the colours of an entity
\* with BackgroundColor, BorderColor and an entry e
C10_Step ==
    UiStep =>
        \A n \in alive :
            LET old == sinks[n]
                e == map[n]
            IN  (old.background # NoColor /\ old.border # NoColor
                 /\ n \in DOMAIN map) =>
                    sinks'[n] =
                        CASE old.ui = NoUi -> old
                          [] old.ui = "None" -> old
                          [] old.ui = "Border" ->
                                [old EXCEPT !.border.a = e]
                          [] old.ui = "Background" ->
                                [old EXCEPT !.background.a = e]
                          [] old.ui = "Both" ->
                                [old EXCEPT !.border.a = e,
                                            !.background.a = e]

\* C10: the UiColorQuery system changes, of an entity with BackgroundColor,
\* BorderColor and an entry e, only the alpha of the colours its UiOpacity
\* selects (None: neither, Border, Background, Both), which it sets to e; an
\* entity without UiOpacity keeps both colours.
C10_UiSelector == [][C10_Step]_vars

\* the system has run over an entity with UiOpacity::Border and an entry
\* other than 1.0: the border has it, the background is as spawned
C10_Witness ==
    /\ "UiColorQuery" \in ran
    /\ \E n \in DOMAIN map :
         /\ sinks[n].ui = "Border"
         /\ map[n] # One
         /\ sinks[n].border = Color("border", map[n])
         /\ sinks[n].background = Color("background", One)

----------------------------------------------------------------------------
(* Claims about the material sinks, checked under SpecMat. *)

\* the step is the run of the system of the material sink type Q
MatStep(Q) == Q \notin ran /\ Q \in ran'

\* the store of the sink type Q in the assets a
Store(Q, a) == IF Q = "MeshMaterial2d" THEN a.m2d ELSE a.m3d

\* the handle entity n holds for the sink type Q
HandleOf(Q, n) ==
    IF Q = "MeshMaterial2d" THEN sinks[n].mesh2d ELSE sinks[n].mesh3d

\* the entities with an entry that hold handle h for the sink type Q
Holders(Q, h) == {n \in QueryEntities(Q) \cap DOMAIN map : HandleOf(Q, n) = h}

\* C11: when an entity with an entry holds a handle the store has no
\* material for, the run of the material sink's system leaves the map, every
\* Opacity and every component alone, creates no entry in the store, changes
\* no material but those that entities with an entry hold, and still calls
\* apply_opacity on every entity of the query with an entry, whose material,
\* if the store has it, receives the value of one of them.
C11_Step ==
    \A Q \in {"MeshMaterial2d", "MeshMaterial3d"} :
        (MatStep(Q) /\ \E n \in QueryEntities(Q) \cap DOMAIN map :
                          Store(Q, assets)[HandleOf(Q, n)] = NoColor) =>
            /\ map' = map /\ opacity' = opacity /\ sinks' = sinks
            /\ \A h \in Handles :
                  /\ Store(Q, assets)[h] = NoColor =>
                        Store(Q, assets')[h] = NoColor
                  /\ Holders(Q, h) = {} =>
                        Store(Q, assets')[h] = Store(Q, assets)[h]
                  /\ (Holders(Q, h) # {} /\ Store(Q, assets)[h] # NoColor) =>
                        \E n \in Holders(Q, h) :
                            Store(Q, assets')[h] =
                                set_alpha(Store(Q, assets)[h], map[n])
            /\ \A n \in QueryEntities(Q) \cap DOMAIN map :
                  <<Q, n, map[n]>> \in applied'

C11_MissingMaterialNoOp == [][C11_Step]_vars

\* the MeshMaterial2d system has run over an entity with an entry whose
\* handle the store has no material for, and over another whose material
\* has received its entry
C11_Witness ==
    /\ "MeshMaterial2d" \in ran
    /\ \E n, m \in QueryEntities("MeshMaterial2d") \cap DOMAIN map :
         /\ assets.m2d[sinks[n].mesh2d] = NoColor
         /\ <<"MeshMaterial2d", n, map[n]>> \in applied
         /\ assets.m2d[sinks[m].mesh2d] = Color("material", map[m])
         /\ map[m] # One

MaterialSinkTypes == {"MeshMaterial2d", "MeshMaterial3d"}

\* C20 as stated: after the Apply set, the material in the store under the
\* handle of every entity with an entry has that entity's entry as its alpha,
\* also when several entities with different entries hold the same handle.
C20_MaterialAlphaIsEntry ==
    pc = Done =>
        \A Q \in MaterialSinkTypes : \A n \in QueryEntities(Q) \cap DOMAIN map :
            Store(Q, assets)[HandleOf(Q, n)] # NoColor =>
                Store(Q, assets)[HandleOf(Q, n)].a = map[n]

\* C20 as amended: after the Apply set, the material in the store under a
\* handle that entities with an entry hold has the entry of one of them as
\* its alpha (so that of each of them when their entries are equal).
C20_MaterialAlphaOfAHolder ==
    pc = Done =>
        \A Q \in MaterialSinkTypes : \A h \in Handles :
            (Holders(Q, h) # {} /\ Store(Q, assets)[h] # NoColor) =>
                \E n \in Holders(Q, h) : Store(Q, assets)[h].a = map[n]

\* two entities with different entries hold the same handle of a stored
\* StandardMaterial, whose alpha is the entry of one of them
C20_Witness ==
    /\ pc = Done
    /\ \E n, m \in QueryEntities("MeshMaterial3d") \cap DOMAIN map :
         /\ sinks[n].mesh3d = sinks[m].mesh3d
         /\ map[n] # map[m]
         /\ assets.m3d[sinks[n].mesh3d] = Color("material", map[n])

----------------------------------------------------------------------------
(* More claims about calculate_opacity, checked under SpecCalc. *)

\* the step is the run of calculate_opacity
CalcStep == Running("Calculate") /\ pc' # pc

\* the map is what a run of calculate_opacity over the World as it is now
\* yields, for some order of the query and the Children as they are
MapIsOfThisWorld ==
    \E order \in Perms(OpacityQueryEntities) : map = calculate(order).map

\* C12: a run of calculate_opacity that starts from the map a run over the
\* same Opacity values and hierarchy has built leaves the same map, whatever
\* order its query yields the entities in.
C12_Step == (CalcStep /\ MapIsOfThisWorld) => map' = map

C12_Idempotent == [][C12_Step]_vars

\* a second run over a World the application has not touched: the map is as
\* the run before left it, and this run has met an entity twice (a child with
\* an Opacity ahead of its ancestor)
C12_Witness ==
    /\ Calculated
    /\ calls = 0
    /\ before # {}
    /\ before = DOMAIN map
    /\ Len(inserts) > Cardinality(DOMAIN map)
    /\ \E n, m \in DOMAIN map : map[n] # map[m]

\* the positions in this run's insert calls of those for entity n
InsertsOf(n) == {i \in 1 .. Len(inserts) : inserts[i][1] = n}

FirstInsert(n) == CHOOSE i \in InsertsOf(n) : \A j \in InsertsOf(n) : i <= j

LastInsert(n) == CHOOSE i \in InsertsOf(n) : \A j \in InsertsOf(n) : j <= i

\* C14 as stated: in one run of calculate_opacity an entity reached again
\* when it has an entry is skipped: it is written once, the first value
\* written for it is the one the map keeps, and its children are not
\* descended into again.
C14_FirstWriteWins ==
    Calculated =>
        \A n \in DOMAIN map :
            /\ Cardinality(InsertsOf(n)) = 1
            /\ map[n] = inserts[FirstInsert(n)][2]

\* C14 as amended: an entity popped when it has an entry is written again
\* and its children are pushed again, so the map keeps the last value
\* written for it, which is written after the last value of its parent and
\* is own * that value.
C14_LastWriteWins ==
    Calculated =>
        \A n \in DOMAIN map :
            /\ map[n] = inserts[LastInsert(n)][2]
            /\ \A i \in InsertsOf(n) : \A c \in ChildSet(n) :
                  \E j \in InsertsOf(c) :
                      j > i /\ inserts[j][2] = Mul(inserts[i][2], own(c))
            /\ (ParentOf(n) # 0 /\ ParentOf(n) \in DOMAIN map) =>
                  /\ LastInsert(ParentOf(n)) < LastInsert(n)
                  /\ map[n] = Mul(own(n), inserts[LastInsert(ParentOf(n))][2])

\* an entity with an Opacity was written as a root, then again below its
\* ancestor with another value, and its own child was written twice too
C14_Witness ==
    /\ Calculated
    /\ \E c, g \in DOMAIN map :
         /\ HasOpacity(c)
         /\ g \in ChildSet(c)
         /\ Cardinality(InsertsOf(c)) = 2
         /\ inserts[FirstInsert(c)][2] # map[c]
         /\ Cardinality(InsertsOf(g)) = 2

----------------------------------------------------------------------------
(* A claim about the systems of the Apply set together, checked under      *)
(* SpecAll.                                                                *)

\* the components the query item of the sink type Q borrows mutably
Written(Q) ==
    CASE Q = "Sprite" -> {"sprite"}
      [] Q = "TextColor" -> {"text"}
      [] Q = "ImageNode" -> {"image"}
      [] Q = "UiColorQuery" -> {"background", "border"}
      [] Q = "MeshMaterial2d" -> {}
      [] Q = "MeshMaterial3d" -> {}

\* the stores the context of the sink type Q borrows mutably
WrittenStores(Q) ==
    CASE Q = "MeshMaterial2d" -> {"m2d"}
      [] Q = "MeshMaterial3d" -> {"m3d"}
      [] OTHER -> {}

\* the run of the system of Q leaves the map, the Opacity values, the sink
\* components of the other types and the stores of the other types alone
C13_Step ==
    \A Q \in SinkTypes :
        (Q \notin ran /\ Q \in ran') =>
            /\ map' = map
            /\ opacity' = opacity
            /\ \A n \in Nodes : \A f \in DOMAIN sinks[n] \ Written(Q) :
                  sinks'[n][f] = sinks[n][f]
            /\ \A a \in DOMAIN assets \ WrittenStores(Q) :
                  assets'[a] = assets[a]

\* the sink components, stores and calls the system of Q can leave when it
\* runs from those of one of the states of S, over the orders in which its
\* query can yield its entities
Outcomes(Q, S) ==
    {apply_all(Q, st, order, 1) : st \in S, order \in Perms(QueryEntities(Q))}

\* the sink types in a sequence, to take each pair of them once
SinkTypeSeq == CHOOSE q \in Perms(SinkTypes) : TRUE

\* the systems of two sink types that have yet to run leave the same
\* components and stores whichever of them runs first
C13_Commute ==
    Running("Apply") =>
        LET here == {[sinks |-> sinks, assets |-> assets, applied |-> applied]}
            todo == registered \ ran
            first == [Q \in todo |-> Outcomes(Q, here)]
        IN  \A i, j \in 1 .. Len(SinkTypeSeq) :
                (i < j /\ SinkTypeSeq[i] \in todo /\ SinkTypeSeq[j] \in todo) =>
                    Outcomes(SinkTypeSeq[j], first[SinkTypeSeq[i]])
                        = Outcomes(SinkTypeSeq[i], first[SinkTypeSeq[j]])

\* C13: the systems of the registered sink types may run in any order: none
\* of them writes the map, an Opacity or the component or store of another
\* sink type, and any two of them that have yet to run leave the same
\* components and stores whichever runs first.
C13_AnyOrder == []C13_Commute /\ [][C13_Step]_vars

\* all six systems have run over an entity with an entry other than 1.0:
\* its colours have it as their alpha, its background (UiOpacity::Border)
\* is as spawned
C13_Witness ==
    /\ pc = Done
    /\ ran = SinkTypes
    /\ \E n \in DOMAIN map :
         /\ map[n] # One
         /\ sinks[n].sprite.a = map[n]
         /\ sinks[n].text.a = map[n]
         /\ sinks[n].image.a = map[n]
         /\ sinks[n].ui = "Border"
         /\ sinks[n].border.a = map[n]
         /\ sinks[n].background.a = One
         /\ assets.m2d[sinks[n].mesh2d].a = map[n]
         /\ assets.m3d[sinks[n].mesh3d].a = map[n]

----------------------------------------------------------------------------
(* A claim about the barrier between interpolate and calculate_opacity,    *)
(* checked under SpecDespawn.                                              *)

\* removal requests are pending only between interpolate and the barrier,
\* and once calculate_opacity has run in a frame the map holds, and the
\* sink systems have been called on, entities that exist only
C15_NonePendingAtCalculate ==
    /\ commands # {} => Running("PostFade")
    /\ Calculated => DOMAIN map \subseteq alive
    /\ \A c \in applied : c[2] \in alive

\* the barrier removes every entity interpolate has requested the removal of
C15_Barrier ==
    (Running("PostFade") /\ pc' # pc) =>
        commands \cap alive' = {} /\ commands' = {}

\* C15: an entity whose removal interpolate requests in a frame is removed at
\* the barrier of that frame, before calculate_opacity runs: it has no entry
\* in the map that frame's run builds and no sink system of the frame is
\* called on it.
C15_RemovedBeforeCalculate ==
    []C15_NonePendingAtCalculate /\ [][C15_Barrier]_vars

\* an entity that had an entry in the frame before has been removed in this
\* frame: the map has no entry for it, and the Sprite system has been called
\* on another entity
C15_Witness ==
    /\ pc = Done
    /\ \E n \in before \ alive :
         /\ n \notin DOMAIN map
         /\ \E m \in DOMAIN map : <<"Sprite", m, map[m]>> \in applied

----------------------------------------------------------------------------
(* More claims about one Opacity value, checked under SpecValue.           *)

\* the mutators that take or imply a target
Targeting == {"fade_in", "fade_out", "interpolate_to", "interpolate_by_speed"}

\* C16: in every state reached from new(v) by mutator calls and
\* interpolation steps, speed == 0.0 exactly when current == target; and
\* right after a mutator that sets a target other than current, speed is
\* non-zero with the sign of target - current.
C16_SpeedZeroIffArrived ==
    \A n \in Nodes : HasOpacity(n) =>
        /\ opacity[n].speed = Zero <=> opacity[n].current = opacity[n].target
        /\ (hist[n].op \in Targeting /\ hist[n].steps = 0
             /\ opacity[n].current # opacity[n].target) =>
                /\ opacity[n].speed # Zero
                /\ Lt(Zero, opacity[n].speed)
                      <=> Lt(opacity[n].current, opacity[n].target)

\* the step is the run of interpolate
InterpolateStep == Running("Fading") /\ pc' # pc

\* |target - current|
Distance(o) == AbsR(Sub(o.target, o.current))

\* C17: a run of interpolate leaves target and despawns of every Opacity as
\* they were, does not increase |target - current|, leaves current on the
\* near side of target (or on it) in the direction of the speed it had, and
\* neither changes nor requests the removal of an entity whose speed is 0.
C17_Step ==
    InterpolateStep =>
        \A n \in Nodes : HasOpacity(n) =>
            LET o == opacity[n]
                o2 == opacity'[n]
            IN  /\ o2.target = o.target
                /\ o2.despawns = o.despawns
                /\ Le(Distance(o2), Distance(o))
                /\ Lt(Zero, o.speed) => Le(o2.current, o2.target)
                /\ Lt(o.speed, Zero) => Le(o2.target, o2.current)
                /\ o.speed = Zero => (o2 = o /\ n \notin commands')

C17_StepIsBounded == [][C17_Step]_vars

\* a fade-in from 0.0 stepped once by more than its duration has been
\* clamped to its target
C17_Witness ==
    \E n \in Nodes :
        /\ Last(n, "fade_in")
        /\ hist[n].c0 = Zero
        /\ hist[n].steps = 1
        /\ Lt(hist[n].d, hist[n].elapsed)
        /\ opacity[n].current = One
        /\ opacity[n].speed = Zero

----------------------------------------------------------------------------
(* A claim about frames without end, checked under SpecLive.               *)

\* a run of interpolate with a positive dt
PositiveStep == \E dt \in Deltas \ {Zero} : interpolate(dt)

\* a run of interpolate with dt == 0 (virtual time paused)
PausedStep == interpolate(Zero)

\* every Opacity is in its steady state
Stable ==
    \A n \in Nodes : HasOpacity(n) =>
        opacity[n].speed = Zero /\ opacity[n].current = opacity[n].target

----------------------------------------------------------------------------
(* A claim about the range of the values, checked under SpecTree.          *)

InUnit(x) == Le(Zero, x) /\ Le(x, One)

\* C19: with every Opacity created and every mutator called with values in
\* [0, 1], every current is in [0, 1], every entry of the map is in [0, 1],
\* and after calculate_opacity the entry of an entity is at most that of its
\* parent, if the parent has one.
C19_InUnitInterval ==
    /\ \A n \in Nodes : HasOpacity(n) => InUnit(opacity[n].current)
    /\ \A n \in DOMAIN map : InUnit(map[n])
    /\ Calculated =>
          \A n \in DOMAIN map :
              (ParentOf(n) # 0 /\ ParentOf(n) \in DOMAIN map) =>
                  Le(map[n], map[ParentOf(n)])

\* a child in the middle of a fade below a parent in the middle of a fade:
\* its entry is less than its parent's
C19_Witness ==
    /\ Calculated
    /\ \E c \in DOMAIN map :
         /\ ParentOf(c) # 0 /\ ParentOf(c) \in DOMAIN map
         /\ HasOpacity(c) /\ opacity[c].speed # Zero
         /\ HasOpacity(ParentOf(c)) /\ opacity[ParentOf(c)].speed # Zero
         /\ Lt(Zero, map[c])
         /\ Lt(map[c], map[ParentOf(c)])
         /\ Lt(map[ParentOf(c)], One)

====
